---- MODULE Spec2Model ----
(***************************************************************************)
(* A model of the user-management application: the schema-driven           *)
(* validators (src/src/utils/validation.ts), the UserForm component        *)
(* (src/src/components/UserForm.tsx), the useUsers / useUserCRUD hooks     *)
(* (src/src/types/user.ts) and the App component (src/unnamed/part_000).   *)
(*                                                                         *)
(* A JavaScript string value typed into a field is a sequence of           *)
(* one-character tokens ("TAB" stands for the tab character); messages     *)
(* are TLA+ strings.  A JavaScript object is a function whose DOMAIN is    *)
(* the set of its own keys.                                                *)
(***************************************************************************)
EXTENDS Integers, Sequences, FiniteSets, TLC

VARIABLES
    formData,          \* UserForm: useState formData
    errors,            \* UserForm: useState errors
    touched,           \* UserForm: useState touched
    formMounted,       \* whether a UserForm instance is rendered
    initialData,       \* UserForm prop initialData (Undefined when not given)
    formMode,          \* UserForm prop mode
    isLoading,         \* UserForm prop isLoading
    lastEvent,         \* history: the last handler that ran, and what it handed on
    mode,              \* App: useState mode
    editingUser,       \* App: useState editingUser
    deleteConfirmUser, \* App: useState deleteConfirmUser
    users,             \* useUsers: useState users
    isLoadingUsers,    \* useUsers: useState isLoading
    usersError,        \* useUsers: useState error
    crudState,         \* useUserCRUD: useState state
    lastError,         \* useUserCRUD: useState lastError
    calls,             \* CRUD calls suspended at their await
    fetches,           \* getUsers calls suspended at their await
    latestFetch,       \* the most recently started getUsers call: pending, or its outcome
    fnCall,            \* pure-function harness: the call
    fnResult,          \* pure-function harness: its result
    db,                \* backend: the stored records, in order
    nextId             \* backend: the number the next generated id is made of

formVars == <<formData, errors, touched, formMounted, initialData, formMode, isLoading>>
appVars == <<mode, editingUser, deleteConfirmUser, users, isLoadingUsers, usersError,
             crudState, lastError, calls, fetches, latestFetch>>
fnVars == <<fnCall, fnResult>>
backendVars == <<db, nextId>>
vars == <<formVars, lastEvent, appVars, fnVars, backendVars>>

----------------------------------------------------------------------------
(* JavaScript values *)

Null == "null"
\* null where a User is expected
NoUser == [id |-> Null]
Undefined == [undefined |-> TRUE]
EmptyObject == [k \in {} |-> ""]

\* { ...obj, [key]: value }
Put(obj, key, value) ==
    [k \in (DOMAIN obj) \cup {key} |-> IF k = key THEN value ELSE obj[k]]

\* { ...a, ...b }
Spread(a, b) ==
    [k \in (DOMAIN a) \cup (DOMAIN b) |-> IF k \in DOMAIN b THEN b[k] ELSE a[k]]

\* Object.values(obj), as the set of the own values
ObjectValues(obj) == {obj[k] : k \in DOMAIN obj}

----------------------------------------------------------------------------
(* Characters and the string operations the validators use *)

LowerLetters == {"a", "b", "c", "d", "e", "f", "g", "h", "i", "j", "k", "l", "m",
                 "n", "o", "p", "q", "r", "s", "t", "u", "v", "w", "x", "y", "z"}
UpperLetters == {"A", "B", "C", "D", "E", "F", "G", "H", "I", "J", "K", "L", "M",
                 "N", "O", "P", "Q", "R", "S", "T", "U", "V", "W", "X", "Y", "Z"}
Digits == {"0", "1", "2", "3", "4", "5", "6", "7", "8", "9"}
\* what \s matches and what trim() strips
WhiteSpace == {" ", "TAB", "NL"}

RECURSIVE TrimStart(_)
TrimStart(s) ==
    IF s = <<>> THEN s
    ELSE IF Head(s) \in WhiteSpace THEN TrimStart(Tail(s)) ELSE s

RECURSIVE TrimEnd(_)
TrimEnd(s) ==
    IF s = <<>> THEN s
    ELSE IF s[Len(s)] \in WhiteSpace THEN TrimEnd(SubSeq(s, 1, Len(s) - 1)) ELSE s

\* String.prototype.trim
trim(s) == TrimEnd(TrimStart(s))

\* value.replace(/[...]/g, ''): drop every character of the class
RECURSIVE ReplaceAll(_, _)
ReplaceAll(s, class) ==
    IF s = <<>> THEN <<>>
    ELSE IF Head(s) \in class THEN ReplaceAll(Tail(s), class)
         ELSE <<Head(s)>> \o ReplaceAll(Tail(s), class)

\* !value || value.trim().length === 0
IsBlank(value) == value = <<>> \/ Len(trim(value)) = 0

----------------------------------------------------------------------------
(* Validators *)

MinNameLength == 2
MaxNameLength == 50
MinPhoneDigits == 10

\* /^[a-zA-Z\s'-]+$/
NameRegexTest(value) ==
    /\ Len(value) >= 1
    /\ \A i \in 1..Len(value) :
         value[i] \in LowerLetters \cup UpperLetters \cup WhiteSpace \cup {"'", "-"}

validateName(value) ==
    IF IsBlank(value) THEN "This field is required"
    ELSE IF Len(value) < MinNameLength THEN "Name must be at least 2 characters"
    ELSE IF Len(value) > MaxNameLength THEN "Name must not exceed 50 characters"
    ELSE IF ~NameRegexTest(value)
         THEN "Name can only contain letters, spaces, hyphens, and apostrophes"
    ELSE ""

\* [^\s@]
NotSpaceNotAt(c) == c \notin WhiteSpace /\ c # "@"

\* mutant: /^\S+@\S+\.\S+$/, which lets further '@' through
EmailRegexTest_AllowsAt(value) ==
    \E i \in 1..Len(value) : \E j \in 1..Len(value) :
        /\ 1 < i /\ i + 1 < j /\ j < Len(value)
        /\ value[i] = "@"
        /\ value[j] = "."
        /\ \A k \in 1..Len(value) : value[k] \notin WhiteSpace

\* /^[^\s@]+@[^\s@]+\.[^\s@]+$/
EmailRegexTest(value) ==
    \E i \in 1..Len(value) : \E j \in 1..Len(value) :
        /\ 1 < i /\ i + 1 < j /\ j < Len(value)
        /\ value[i] = "@"
        /\ value[j] = "."
        /\ \A k \in 1..Len(value) : k # i => NotSpaceNotAt(value[k])

validateEmail(value) ==
    IF IsBlank(value) THEN "Email is required"
    ELSE IF ~EmailRegexTest(value) THEN "Please enter a valid email address"
    ELSE ""

\* /^\+?[\d]{10,}$/
PhoneRegexTest(cleaned) ==
    LET digits == IF cleaned # <<>> /\ Head(cleaned) = "+" THEN Tail(cleaned) ELSE cleaned
    IN  /\ Len(digits) >= MinPhoneDigits
        /\ \A i \in 1..Len(digits) : digits[i] \in Digits

validatePhone(value) ==
    IF IsBlank(value) THEN "Phone number is required"
    ELSE LET cleanedPhone == ReplaceAll(value, WhiteSpace \cup {"(", ")", "-"})
         IN  IF ~PhoneRegexTest(cleanedPhone)
             THEN "Phone number must contain at least 10 digits"
             ELSE ""

\* mutant: the validator is chosen by the field's name
validateField_ByFieldName(fieldName, value, validation) ==
    CASE fieldName = "firstName" -> validateName(value)
      [] fieldName = "email" -> validateEmail(value)
      [] fieldName = "phone" -> validatePhone(value)
      [] OTHER -> IF IsBlank(value) THEN "This field is required" ELSE ""

\* the router; validation is "name", "email", "phone", "date" or "undefined"
validateField(fieldName, value, validation) ==
    CASE validation = "name" -> validateName(value)
      [] validation = "email" -> validateEmail(value)
      [] validation = "phone" -> validatePhone(value)
      [] OTHER -> IF IsBlank(value) THEN "This field is required" ELSE ""

----------------------------------------------------------------------------
(* The field schema *)

userSchema == <<
    [name |-> "firstName", label |-> "First Name", type |-> "text",
     required |-> TRUE, validation |-> "name", placeholder |-> "John"],
    [name |-> "lastName", label |-> "Last Name", type |-> "text",
     required |-> TRUE, validation |-> "name", placeholder |-> "Doe"],
    [name |-> "email", label |-> "Email Address", type |-> "email",
     required |-> TRUE, validation |-> "email", placeholder |-> "john@example.com"],
    [name |-> "phone", label |-> "Phone Number", type |-> "tel",
     required |-> TRUE, validation |-> "phone", placeholder |-> "(555) 123-4567"] >>

SchemaNames == {userSchema[i].name : i \in 1..Len(userSchema)}

\* userSchema.find((field) => field.name === name)?.validation
SchemaValidation(name) ==
    IF \E i \in 1..Len(userSchema) : userSchema[i].name = name
    THEN LET i == CHOOSE i \in 1..Len(userSchema) :
                    /\ userSchema[i].name = name
                    /\ \A j \in 1..(i - 1) : userSchema[j].name # name
         IN  userSchema[i].validation
    ELSE "undefined"

\* formData[field.name] || ''
ValueOrEmpty(data, name) == IF name \in DOMAIN data THEN data[name] ELSE <<>>

\* the forEach of validateFormData over userSchema[i..], accumulating into acc
RECURSIVE ValidateFrom(_, _, _)
ValidateFrom(i, data, acc) ==
    IF i > Len(userSchema) THEN acc
    ELSE LET field == userSchema[i]
             error == validateField(field.name, ValueOrEmpty(data, field.name),
                                    field.validation)
         IN  ValidateFrom(i + 1, data,
                          IF error # "" THEN Put(acc, field.name, error) ELSE acc)

\* mutant: errors[field.name] = error without the if (error)
RECURSIVE ValidateStoringAllFrom(_, _, _)
ValidateStoringAllFrom(i, data, acc) ==
    IF i > Len(userSchema) THEN acc
    ELSE LET field == userSchema[i]
             error == validateField(field.name, ValueOrEmpty(data, field.name),
                                    field.validation)
         IN  ValidateStoringAllFrom(i + 1, data, Put(acc, field.name, error))

validateFormData_StoresAll(data) == ValidateStoringAllFrom(1, data, EmptyObject)

validateFormData(data) == ValidateFrom(1, data, EmptyObject)

\* mutant: Object.keys(errors).length === 0
isFormValid_NoKeys(errs) == DOMAIN errs = {}

\* Object.values(errors).every((error) => !error)
isFormValid(errs) == \A e \in ObjectValues(errs) : e = ""

----------------------------------------------------------------------------
(* UserForm: the component's state and its handlers.  A handler maps the      *)
(* state st = [formData, errors, touched] to the state after the handler's    *)
(* batched updates, with handed = the arguments it called onSubmit with.      *)

\* the forEach of getEmptyFormData over userSchema[i..]
RECURSIVE EmptyFrom(_, _)
EmptyFrom(i, data) ==
    IF i > Len(userSchema) THEN data
    ELSE EmptyFrom(i + 1, Put(data, userSchema[i].name, <<>>))

getEmptyFormData == EmptyFrom(1, EmptyObject)

FormState(fd, er, to) == [formData |-> fd, errors |-> er, touched |-> to, handed |-> {}]

\* initialData || getEmptyFormData()
InitialOrEmpty(init) == IF init = Undefined THEN getEmptyFormData ELSE init

\* mutant: the effect forgets setTouched({})
syncEffect_KeepsTouched(init) ==
    [formData |-> InitialOrEmpty(init), errors |-> EmptyObject, touched |-> touched,
     handed |-> {}]

\* the effect on [initialData]
syncEffect(init) == FormState(InitialOrEmpty(init), EmptyObject, EmptyObject)

\* touched[name]
IsTouched(to, name) == name \in DOMAIN to /\ to[name]

\* mutant: the field is validated on every change, touched or not
handleChange_ValidatesUntouched(st, name, value) ==
    [st EXCEPT !.formData = Put(st.formData, name, value),
               !.errors = Put(st.errors, name,
                              validateField(name, value, SchemaValidation(name))),
               !.handed = {}]

\* mutant: { ...prev, name: value }, the key taken literally
handleChange_LiteralName(st, name, value) ==
    [st EXCEPT !.formData = Put(st.formData, "name", value),
               !.errors = IF IsTouched(st.touched, name)
                          THEN Put(st.errors, "name",
                                   validateField(name, value, SchemaValidation(name)))
                          ELSE st.errors,
               !.handed = {}]

\* mutant: a change updates the value and leaves the stored error of the field
handleChange_KeepsError(st, name, value) ==
    [st EXCEPT !.formData = Put(st.formData, name, value), !.handed = {}]

handleChange(st, name, value) ==
    LET error == validateField(name, value, SchemaValidation(name))
    IN  [st EXCEPT !.formData = Put(st.formData, name, value),
                   !.errors = IF IsTouched(st.touched, name)
                              THEN Put(st.errors, name, error)
                              ELSE st.errors,
                   !.handed = {}]

\* mutant: the blur forgets setTouched
handleBlur_NoTouch(st, name, value) ==
    [st EXCEPT !.errors = Put(st.errors, name,
                              validateField(name, value, SchemaValidation(name))),
               !.handed = {}]

handleBlur(st, name, value) ==
    LET error == validateField(name, value, SchemaValidation(name))
    IN  [st EXCEPT !.touched = Put(st.touched, name, TRUE),
                   !.errors = Put(st.errors, name, error),
                   !.handed = {}]

\* the forEach of handleSubmit that builds touchedFields
RECURSIVE TouchedFrom(_, _)
TouchedFrom(i, touchedFields) ==
    IF i > Len(userSchema) THEN touchedFields
    ELSE TouchedFrom(i + 1, Put(touchedFields, userSchema[i].name, TRUE))

\* mutant: a rejected submit stores the errors and forgets to mark the fields
handleSubmit_NoTouch(st) ==
    IF ~isFormValid(validateFormData(st.formData))
    THEN [st EXCEPT !.errors = validateFormData(st.formData), !.handed = {}]
    ELSE [st EXCEPT !.handed = {st.formData}]

handleSubmit(st) ==
    LET newErrors == validateFormData(st.formData)
    IN  IF ~isFormValid(newErrors)
        THEN [st EXCEPT !.errors = newErrors,
                        !.touched = Spread(st.touched, TouchedFrom(1, EmptyObject)),
                        !.handed = {}]
        ELSE [st EXCEPT !.handed = {st.formData}]

\* mutant: the form is cleared to the values it was opened with
handleClearForm_ToInitial(st) ==
    [formData |-> InitialOrEmpty(initialData), errors |-> EmptyObject,
     touched |-> EmptyObject, handed |-> {}]

\* mutant: the clear forgets setErrors({})
handleClearForm_KeepsErrors(st) ==
    [formData |-> getEmptyFormData, errors |-> st.errors, touched |-> EmptyObject,
     handed |-> {}]

handleClearForm(st) == FormState(getEmptyFormData, EmptyObject, EmptyObject)

isFormValidNow(st) ==
    /\ isFormValid(st.errors)
    /\ \A v \in ObjectValues(st.formData) : Len(trim(v)) > 0

\* the state of the rendered form
form == FormState(formData, errors, touched)

\* the value attribute of the input of a field: formData[field.name]
InputValue(name) == formData[name]

----------------------------------------------------------------------------
(* Values typed into the fields, and records given as initialData *)

SpaceOnly == <<" ">>
OneLetter == <<"A">>
TwoLetters == <<"A", "l">>
NoTld == <<"a", "@", "b">>
ShortEmail == <<"a", "@", "b", ".", "c">>
ThreeDigits == <<"1", "2", "3">>
TenDigits == <<"1", "2", "3", "4", "5", "6", "7", "8", "9", "0">>

InputValues(name) ==
    CASE name = "firstName" -> {<<>>, SpaceOnly, OneLetter, TwoLetters}
      [] name = "lastName" -> {<<>>, TwoLetters}
      [] name = "email" -> {<<>>, NoTld, ShortEmail}
      [] name = "phone" -> {<<>>, ThreeDigits, TenDigits}

AliceData ==
    [firstName |-> <<"A", "l", "i", "c", "e">>,
     lastName |-> <<"J", "o", "h", "n", "s", "o", "n">>,
     email |-> <<"a", "l", "i", "c", "e", "@", "e", "x", "a", "m", "p", "l", "e", ".",
                 "c", "o", "m">>,
     phone |-> <<"(", "5", "5", "5", ")", " ", "1", "2", "3", "-", "4", "5", "6", "7">>]

SeedData == {AliceData}

----------------------------------------------------------------------------
(* The UserForm component on its own: the parent gives the props, the user   *)
(* types, leaves fields and presses the buttons.  A disabled control fires   *)
(* no event.                                                                 *)

Event(op, handed) == [op |-> op, handed |-> handed]

SetForm(st) ==
    /\ formData' = st.formData
    /\ errors' = st.errors
    /\ touched' = st.touched

\* the parent renders the form with a (new) initialData and a mode
Initialize(m, init) ==
    /\ formMode' = m
    /\ initialData' = init
    /\ SetForm(syncEffect(init))
    /\ lastEvent' = Event("initialize", {})
    /\ UNCHANGED <<formMounted, isLoading, appVars, fnVars, backendVars>>

\* the parent renders the form again with the same initialData
SetLoading(b) ==
    /\ isLoading # b
    /\ isLoading' = b
    /\ lastEvent' = Event("loading", {})
    /\ UNCHANGED <<formData, errors, touched, formMounted, initialData, formMode,
                   appVars, fnVars, backendVars>>

OnChange(name, value) ==
    /\ ~isLoading
    /\ value # InputValue(name)
    /\ SetForm(handleChange(form, name, value))
    /\ lastEvent' = Event("change", {})
    /\ UNCHANGED <<formMounted, initialData, formMode, isLoading, appVars, fnVars, backendVars>>

OnBlur(name) ==
    /\ ~isLoading
    /\ SetForm(handleBlur(form, name, InputValue(name)))
    /\ lastEvent' = Event("blur", {})
    /\ UNCHANGED <<formMounted, initialData, formMode, isLoading, appVars, fnVars, backendVars>>

Submit ==
    /\ isFormValidNow(form)
    /\ ~isLoading
    /\ SetForm(handleSubmit(form))
    /\ lastEvent' = Event("submit", handleSubmit(form).handed)
    /\ UNCHANGED <<formMounted, initialData, formMode, isLoading, appVars, fnVars, backendVars>>

Clear ==
    /\ ~isLoading
    /\ SetForm(handleClearForm(form))
    /\ lastEvent' = Event("clear", {})
    /\ UNCHANGED <<formMounted, initialData, formMode, isLoading, appVars, fnVars, backendVars>>

\* the App and harness variables, at rest while the form is studied alone
AppAtRest ==
    /\ mode = "create"
    /\ editingUser = NoUser
    /\ deleteConfirmUser = NoUser
    /\ users = <<>>
    /\ isLoadingUsers = FALSE
    /\ usersError = Null
    /\ crudState = [list |-> FALSE, creating |-> FALSE, updating |-> FALSE,
                    deleting |-> Null]
    /\ lastError = Null
    /\ calls = {}
    /\ fetches = 0
    /\ latestFetch = [type |-> "none"]

FnAtRest ==
    /\ fnCall = [op |-> "none"]
    /\ fnResult = {}

\* no backend instance: the façade and the App take the backend's answers as given
BackendAtRest ==
    /\ db = <<>>
    /\ nextId = 0

\* the first render of a form in create mode: the useState initial values
Init ==
    /\ formMounted = TRUE
    /\ formMode = "create"
    /\ initialData = Undefined
    /\ isLoading = FALSE
    /\ formData = InitialOrEmpty(Undefined)
    /\ errors = EmptyObject
    /\ touched = EmptyObject
    /\ lastEvent = Event("mount", {})
    /\ AppAtRest
    /\ FnAtRest
    /\ BackendAtRest

Next ==
    \/ Initialize("create", Undefined)
    \/ \E init \in SeedData : Initialize("edit", init)
    \/ \E b \in BOOLEAN : SetLoading(b)
    \/ \E name \in SchemaNames : \E value \in InputValues(name) : OnChange(name, value)
    \/ \E name \in SchemaNames : OnBlur(name)
    \/ Submit
    \/ Clear

Spec == Init /\ [][Next]_vars

----------------------------------------------------------------------------
(* Properties of the form controller *)

FieldNames == {"firstName", "lastName", "email", "phone"}

\* the stored error of a field: absent and empty both mean no error
ErrorOf(errs, name) == IF name \in DOMAIN errs THEN errs[name] ELSE ""

HasError(errs) == \E k \in DOMAIN errs : errs[k] # ""

AllEmptyDraft(data) == DOMAIN data = FieldNames /\ \A k \in FieldNames : data[k] = <<>>

\* C1: a Submit step hands the draft to onSubmit exactly when validateRecord(draft)
\* has no error; when it has one, the step stores exactly the computed errors,
\* marks every schema field touched and hands nothing on; the draft is unchanged.
C1_SubmitContract ==
    [][Submit =>
        /\ formData' = formData
        /\ IF HasError(validateFormData(formData))
           THEN /\ errors' = validateFormData(formData)
                /\ \A name \in FieldNames : IsTouched(touched', name)
                /\ lastEvent'.handed = {}
           ELSE /\ lastEvent'.handed = {formData}
                /\ errors' = errors
                /\ touched' = touched]_vars

C1_Witness ==
    /\ lastEvent.op = "submit"
    /\ lastEvent.handed = {}
    /\ HasError(errors)
    /\ \A name \in FieldNames : IsTouched(touched, name)

\* C2: an OnChange(f, v) step sets draft[f] to v and leaves the other values; the
\* stored error of f becomes validateField(v) if f is touched, the errors are
\* exactly as before if it is not; touched never changes.
C2_OnChangeContract ==
    [][\A name \in FieldNames : \A value \in InputValues(name) :
        OnChange(name, value) =>
            /\ DOMAIN formData' = DOMAIN formData
            /\ formData'[name] = value
            /\ \A k \in DOMAIN formData \ {name} : formData'[k] = formData[k]
            /\ IF IsTouched(touched, name)
               THEN ErrorOf(errors', name)
                        = validateField(name, value, SchemaValidation(name))
               ELSE errors' = errors
            /\ touched' = touched]_vars

C2_Witness ==
    /\ lastEvent.op = "change"
    /\ IsTouched(touched, "firstName")
    /\ formData["firstName"] = OneLetter
    /\ ErrorOf(errors, "firstName") = "Name must be at least 2 characters"
    /\ ~IsTouched(touched, "phone")
    /\ formData["phone"] = ThreeDigits
    /\ ErrorOf(errors, "phone") = ""

\* C3: an OnBlur(f) step makes f touched and stores validateField(current value of
\* f) as the error of f, touched before or not; the draft is unchanged; a second
\* OnBlur(f) right after it changes nothing.
C3_OnBlurContract ==
    [][\A name \in FieldNames :
        OnBlur(name) =>
            /\ IsTouched(touched', name)
            /\ ErrorOf(errors', name)
                   = validateField(name, formData[name], SchemaValidation(name))
            /\ formData' = formData
            /\ LET after == FormState(formData', errors', touched')
               IN  handleBlur(after, name, after.formData[name]) = after]_vars

C3_Witness ==
    /\ lastEvent.op = "blur"
    /\ IsTouched(touched, "email")
    /\ formData["email"] = NoTld
    /\ ErrorOf(errors, "email") = "Please enter a valid email address"

\* C4: a Clear step, in create and in edit mode, leaves the schema-derived empty
\* draft, no errors and nothing touched; a second Clear changes nothing.
C4_ClearContract ==
    [][Clear =>
        /\ AllEmptyDraft(formData')
        /\ errors' = EmptyObject
        /\ touched' = EmptyObject
        /\ LET after == FormState(formData', errors', touched')
           IN  handleClearForm(after) = after]_vars

C4_Witness ==
    /\ lastEvent.op = "clear"
    /\ formMode = "edit"
    /\ initialData = AliceData
    /\ AllEmptyDraft(formData)

\* C5: an Initialize step with a seed record leaves the seed's schema-field values
\* as the draft, one without a seed the schema-derived empty draft; errors and
\* touched are empty afterwards in both cases.
C5_InitializeContract ==
    [][\A m \in {"create", "edit"} : \A init \in SeedData \cup {Undefined} :
        Initialize(m, init) =>
            /\ IF init = Undefined
               THEN AllEmptyDraft(formData')
               ELSE /\ DOMAIN formData' = FieldNames
                    /\ \A k \in FieldNames : formData'[k] = init[k]
            /\ errors' = EmptyObject
            /\ touched' = EmptyObject]_vars

C5_Witness ==
    /\ lastEvent.op = "initialize"
    /\ formMode = "edit"
    /\ formData = AliceData
    /\ errors = EmptyObject
    /\ touched = EmptyObject

\* C6: the keys of the draft are exactly the four schema field names, and the keys
\* of the stored errors and of touched are among them.
C6_KeysInSchema ==
    /\ DOMAIN formData = FieldNames
    /\ DOMAIN errors \subseteq FieldNames
    /\ DOMAIN touched \subseteq FieldNames

C6_Witness ==
    /\ lastEvent.op = "change"
    /\ DOMAIN touched = FieldNames
    /\ DOMAIN errors = FieldNames
    /\ formData["lastName"] = TwoLetters

\* C7 (as claimed): whenever the submit gate isFormValidNow is open,
\* validateRecord(draft) has no error.
C7_GateImpliesValid ==
    isFormValidNow(form) => ~HasError(validateFormData(formData))

----------------------------------------------------------------------------
(* The pure functions on their own: a call is drawn, then applied *)

FormAtRest ==
    /\ formMounted = FALSE
    /\ formMode = "create"
    /\ initialData = Undefined
    /\ isLoading = FALSE
    /\ formData = getEmptyFormData
    /\ errors = EmptyObject
    /\ touched = EmptyObject

\* the values a key of a draft given to validateFormData may hold;
\* "department" is a key that is not in the schema
DraftKeys == FieldNames \cup {"department"}

DraftValues(key) ==
    CASE key = "firstName" -> {<<>>, OneLetter, TwoLetters}
      [] key = "lastName" -> {<<>>, TwoLetters}
      [] key = "email" -> {<<>>, NoTld, ShortEmail}
      [] key = "phone" -> {<<>>, ThreeDigits, TenDigits}
      [] key = "department" -> {<<>>, TwoLetters}

DraftInputs ==
    {d \in UNION {[K -> UNION {DraftValues(k) : k \in DraftKeys}] : K \in SUBSET DraftKeys} :
        \A k \in DOMAIN d : d[k] \in DraftValues(k)}

ErrorsInputs ==
    UNION {[K -> {"", "x", "Required"}] : K \in SUBSET {"a", "firstName", "email"}}

\* the strings of at most n characters over an alphabet
Strings(alphabet, n) == UNION {[1..k -> alphabet] : k \in 0..n}

\* the character c, n times
Repeat(c, n) == [i \in 1..n |-> c]

\* s with c put in after its first pos characters
Insert(s, pos, c) == SubSeq(s, 1, pos) \o <<c>> \o SubSeq(s, pos + 1, Len(s))

MaxShortLen == 3
MaxEmailLen == 6

\* a letter of each case, a digit, the space, another whitespace character, the
\* hyphen, the apostrophe and another symbol
NameAlphabet == {"a", "Z", "7", " ", "TAB", "-", "'", "!"}

\* names around the maximum length: letters only, one other character at either
\* end, and spaces only
LongNames ==
    {Repeat("a", n) : n \in (MaxNameLength - 1)..(MaxNameLength + 2)}
        \cup {Repeat("a", n - 1) \o <<c>> :
                n \in MaxNameLength..(MaxNameLength + 1), c \in NameAlphabet}
        \cup {<<c>> \o Repeat("a", n - 1) :
                n \in MaxNameLength..(MaxNameLength + 1), c \in NameAlphabet}
        \cup {Repeat(" ", MaxNameLength + 1)}

NameInputs == Strings(NameAlphabet, MaxShortLen) \cup LongNames

EmailAlphabet == {"a", "@", ".", " "}

EmailInputs ==
    Strings(EmailAlphabet, MaxEmailLen)
        \cup {<<"TAB">>, <<"a", "@", "a", ".", "a", "TAB">>,
              <<"a", "TAB", "@", "a", ".", "a">>, AliceData.email}

PhoneAlphabet == {"1", "+", " ", "TAB", "(", ")", "-", "x"}

\* 9, 10 and 11 digits, with and without a leading plus
PhoneBases ==
    {prefix \o Repeat("1", n) :
        prefix \in {<<>>, <<"+">>}, n \in (MinPhoneDigits - 1)..(MinPhoneDigits + 1)}

PhoneInputs ==
    Strings(PhoneAlphabet, MaxShortLen)
        \cup PhoneBases
        \cup UNION {{Insert(base, pos, c) : pos \in 0..Len(base), c \in PhoneAlphabet} :
                        base \in PhoneBases}
        \cup {AliceData.phone}

ValidDate == <<"2", "0", "2", "4", "-", "0", "1", "-", "1", "5">>
NoSuchDay == <<"2", "0", "2", "4", "-", "1", "3", "-", "4", "5">>
NotADate == <<"x", "!">>

\* the values validateField is called with
FieldInputs ==
    {<<>>, SpaceOnly, <<"TAB">>, OneLetter, TwoLetters, <<"a", "TAB", "b">>, NoTld,
     ShortEmail, ThreeDigits, TenDigits, ValidDate, NoSuchDay, NotADate}

\* the field names validateField is called with
FieldNameInputs == {"firstName", "email", "dateOfBirth"}

\* the validation argument: a kind of SchemaField, a string that is no kind, or
\* none
ValidationInputs == {"name", "email", "phone", "date", "zip", "undefined"}

\* the schema after the field of the README's guide has been added
dateOfBirthField ==
    [name |-> "dateOfBirth", label |-> "Date of Birth", type |-> "date",
     required |-> FALSE, validation |-> "date", placeholder |-> "YYYY-MM-DD"]

extendedSchema == userSchema \o <<dateOfBirthField>>

\* validateFormData over a given schema: the forEach over schema[i..]
RECURSIVE ValidateOver(_, _, _, _)
ValidateOver(schema, i, data, acc) ==
    IF i > Len(schema) THEN acc
    ELSE LET field == schema[i]
             error == validateField(field.name, ValueOrEmpty(data, field.name),
                                    field.validation)
         IN  ValidateOver(schema, i + 1, data,
                          IF error # "" THEN Put(acc, field.name, error) ELSE acc)

\* drafts of the extended schema: the four fields empty or Alice's, the date
\* absent, empty, valid or invalid
ExtendedDraftInputs ==
    {base @@ date :
        base \in {AliceData, getEmptyFormData},
        date \in {EmptyObject} \cup
                 {[k \in {"dateOfBirth"} |-> v] : v \in {<<>>, ValidDate, NotADate}}}

FnCalls ==
    {[op |-> "validateFormData", arg |-> d] : d \in DraftInputs}
        \cup {[op |-> "isFormValid", arg |-> e] : e \in ErrorsInputs}
        \cup {[op |-> "validateName", arg |-> v] : v \in NameInputs}
        \cup {[op |-> "validateEmail", arg |-> v] : v \in EmailInputs}
        \cup {[op |-> "validatePhone", arg |-> v] : v \in PhoneInputs}
        \cup {[op |-> "validateField",
               arg |-> [fieldName |-> f, value |-> v, validation |-> k]] :
                f \in FieldNameInputs, v \in FieldInputs, k \in ValidationInputs}
        \cup {[op |-> "validateFormDataExtended", arg |-> d] : d \in ExtendedDraftInputs}

FnInit ==
    /\ fnCall \in FnCalls
    /\ fnResult = {}
    /\ lastEvent = Event("none", {})
    /\ FormAtRest
    /\ AppAtRest
    /\ BackendAtRest

ApplyValidateFormData ==
    /\ fnCall.op = "validateFormData"
    /\ fnResult = {}
    /\ fnResult' = {validateFormData(fnCall.arg)}
    /\ UNCHANGED <<fnCall, lastEvent, formVars, appVars, backendVars>>

ApplyIsFormValid ==
    /\ fnCall.op = "isFormValid"
    /\ fnResult = {}
    /\ fnResult' = {isFormValid(fnCall.arg)}
    /\ UNCHANGED <<fnCall, lastEvent, formVars, appVars, backendVars>>

ApplyValidateName ==
    /\ fnCall.op = "validateName"
    /\ fnResult = {}
    /\ fnResult' = {validateName(fnCall.arg)}
    /\ UNCHANGED <<fnCall, lastEvent, formVars, appVars, backendVars>>

ApplyValidateEmail ==
    /\ fnCall.op = "validateEmail"
    /\ fnResult = {}
    /\ fnResult' = {validateEmail(fnCall.arg)}
    /\ UNCHANGED <<fnCall, lastEvent, formVars, appVars, backendVars>>

ApplyValidatePhone ==
    /\ fnCall.op = "validatePhone"
    /\ fnResult = {}
    /\ fnResult' = {validatePhone(fnCall.arg)}
    /\ UNCHANGED <<fnCall, lastEvent, formVars, appVars, backendVars>>

ApplyValidateField ==
    /\ fnCall.op = "validateField"
    /\ fnResult = {}
    /\ fnResult' = {validateField(fnCall.arg.fieldName, fnCall.arg.value,
                                  fnCall.arg.validation)}
    /\ UNCHANGED <<fnCall, lastEvent, formVars, appVars, backendVars>>

ApplyValidateFormDataExtended ==
    /\ fnCall.op = "validateFormDataExtended"
    /\ fnResult = {}
    /\ fnResult' = {ValidateOver(extendedSchema, 1, fnCall.arg, EmptyObject)}
    /\ UNCHANGED <<fnCall, lastEvent, formVars, appVars, backendVars>>

FnNext ==
    \/ ApplyValidateFormData
    \/ ApplyIsFormValid
    \/ ApplyValidateName
    \/ ApplyValidateEmail
    \/ ApplyValidatePhone
    \/ ApplyValidateField
    \/ ApplyValidateFormDataExtended

FnSpec == FnInit /\ [][FnNext]_vars

RequiredNames == {userSchema[i].name : i \in {j \in 1..Len(userSchema) : userSchema[j].required}}

Restrict(d, keys) == [k \in (DOMAIN d) \cap keys |-> d[k]]

\* C9: validateFormData(d) has an entry for a schema field exactly when
\* validateField of that field's value (the empty string when the key is absent) is
\* non-empty, and the entry is that message; its keys are schema field names, and
\* keys of d outside the schema do not change it; for a draft whose schema fields
\* are all empty it has an entry for every required field.
C9_ValidateRecord ==
    (fnCall.op = "validateFormData" /\ fnResult # {}) =>
        \A r \in fnResult :
            LET d == fnCall.arg
                Msg(f) == validateField(f, IF f \in DOMAIN d THEN d[f] ELSE <<>>,
                                        SchemaValidation(f))
            IN  /\ DOMAIN r \subseteq FieldNames
                /\ \A f \in FieldNames :
                     /\ f \in DOMAIN r <=> Msg(f) # ""
                     /\ f \in DOMAIN r => r[f] = Msg(f)
                /\ r = validateFormData(Restrict(d, FieldNames))
                /\ (\A f \in FieldNames : f \in DOMAIN d /\ d[f] = <<>>)
                       => RequiredNames \subseteq DOMAIN r

C9_Witness ==
    /\ fnCall.op = "validateFormData"
    /\ fnResult # {}
    /\ DOMAIN fnCall.arg = {"firstName", "email", "department"}
    /\ fnCall.arg["firstName"] = TwoLetters
    /\ fnCall.arg["email"] = NoTld
    /\ fnCall.arg["department"] = <<>>
    /\ \A r \in fnResult : DOMAIN r = {"lastName", "email", "phone"}

\* C10: isFormValid(errors) is true exactly when every value of errors is the
\* empty string; the empty mapping is valid, one non-empty message makes it false.
C10_IsValid ==
    (fnCall.op = "isFormValid" /\ fnResult # {}) =>
        fnResult = {\A k \in DOMAIN fnCall.arg : fnCall.arg[k] = ""}

C10_Witness ==
    /\ fnCall.op = "isFormValid"
    /\ fnResult = {TRUE}
    /\ DOMAIN fnCall.arg = {"a", "firstName"}

----------------------------------------------------------------------------
(* useUserCRUD and useUsers: the state changes of a call before its await and *)
(* after it.  The backend is an external collaborator: it answers a call with *)
(* a success, a failure result (with or without an error string) or an        *)
(* exception.                                                                 *)

InitialLoadingState ==
    [list |-> FALSE, creating |-> FALSE, updating |-> FALSE, deleting |-> Null]

\* mutant: setState with a new object, without ...prev
StartedState_WithoutPrev(st, kind, id) ==
    CASE kind = "create" -> [list |-> FALSE, creating |-> TRUE, updating |-> FALSE,
                             deleting |-> Null]
      [] kind = "update" -> [list |-> FALSE, creating |-> FALSE, updating |-> TRUE,
                             deleting |-> Null]
      [] kind = "delete" -> [list |-> FALSE, creating |-> FALSE, updating |-> FALSE,
                             deleting |-> id]

\* the state update at the start of createUser / updateUser / deleteUser
StartedState(st, kind, id) ==
    CASE kind = "create" -> [st EXCEPT !.creating = TRUE]
      [] kind = "update" -> [st EXCEPT !.updating = TRUE]
      [] kind = "delete" -> [st EXCEPT !.deleting = id]

\* mutant: no finally block
FinishedState_Absent(st, kind) == st

\* the state update of the finally block
FinishedState(st, kind) ==
    CASE kind = "create" -> [st EXCEPT !.creating = FALSE]
      [] kind = "update" -> [st EXCEPT !.updating = FALSE]
      [] kind = "delete" -> [st EXCEPT !.deleting = Null]

SuccessMessage(kind) ==
    CASE kind = "create" -> "User created successfully"
      [] kind = "update" -> "User updated successfully"
      [] kind = "delete" -> "User deleted successfully"

FallbackMessage(kind) ==
    CASE kind = "create" -> "Failed to create user"
      [] kind = "update" -> "Failed to update user"
      [] kind = "delete" -> "Failed to delete user"

UnexpectedMessage(kind) ==
    CASE kind = "create" -> "An unexpected error occurred while creating the user"
      [] kind = "update" -> "An unexpected error occurred while updating the user"
      [] kind = "delete" -> "An unexpected error occurred while deleting the user"

\* the error strings the backend answers a rejected call with
BackendErrors(kind) ==
    CASE kind = "create" -> {"A user with this email already exists"}
      [] kind = "update" -> {"User not found"}
      [] kind = "delete" -> {"User not found"}

\* what the backend may answer a CRUD call with; data tells whether
\* response.data is there, error is Null when response.error is not there and
\* may be the empty string; for a throw, error is the text of the exception
Outcomes(kind) ==
    {[type |-> "result", success |-> TRUE, data |-> TRUE, error |-> Null],
     [type |-> "result", success |-> TRUE, data |-> FALSE, error |-> Null],
     [type |-> "throw", success |-> FALSE, data |-> FALSE, error |-> "Network request failed"]}
        \cup {[type |-> "result", success |-> FALSE, data |-> FALSE, error |-> e] :
                e \in BackendErrors(kind) \cup {Null, ""}}

\* response.success && response.data; deleteUser tests response.success alone
Succeeded(kind, outcome) ==
    /\ outcome.type = "result"
    /\ outcome.success
    /\ kind = "delete" \/ outcome.data

\* mutant: the catch block reports the text of the exception
ErrorMessage_ExceptionText(kind, outcome) ==
    IF outcome.error # Null /\ outcome.error # "" THEN outcome.error
    ELSE FallbackMessage(kind)

\* the message a call that did not succeed stores and reports
ErrorMessage(kind, outcome) ==
    IF outcome.type = "throw" THEN UnexpectedMessage(kind)
    ELSE IF outcome.error # Null /\ outcome.error # "" THEN outcome.error
    ELSE FallbackMessage(kind)

----------------------------------------------------------------------------
(* The App *)

MaxFetches == 2

Alice == [id |-> "1", createdAt |-> "t1"] @@ AliceData

Bob ==
    [id |-> "2", createdAt |-> "t2",
     firstName |-> <<"B", "o", "b">>,
     lastName |-> AliceData.lastName,
     email |-> <<"b", "o", "b", "@", "e", "x", "a", "m", "p", "l", "e", ".", "c", "o", "m">>,
     phone |-> AliceData.phone]

\* the lists the backend answers getUsers with
ListResponses == {<<Bob>>, <<>>}

\* a getUsers call that has not returned
FetchPending == [type |-> "pending"]

FetchOutcomes ==
    {[type |-> "result", success |-> TRUE, data |-> l] : l \in ListResponses}
        \cup {[type |-> "result", success |-> FALSE, data |-> <<>>],
              [type |-> "throw", success |-> FALSE, data |-> <<>>]}

\* what the user types into the form of the App: Alice's values, or a first name
\* that is too short
AppInputValues(name) ==
    IF name = "firstName" THEN {OneLetter, AliceData.firstName} ELSE {AliceData[name]}

\* the fields the user leaves after typing
AppBlurFields == {"firstName"}

\* the initialData the App passes to UserForm
InitialDataOf(user) ==
    IF user # NoUser
    THEN [firstName |-> user.firstName, lastName |-> user.lastName,
          email |-> user.email, phone |-> user.phone]
    ELSE Undefined

\* mutant: the form is never told that a call is pending
isSubmitting_Never(m, st) == FALSE

isSubmitting(m, st) == IF m = "create" THEN st.creating ELSE st.updating

\* the cards UserList renders
ListedUsers ==
    IF isLoadingUsers THEN {} ELSE {users[i] : i \in 1..Len(users)}

\* The render that follows a handler.  st is the form state the handlers left;
\* rendered tells whether the App itself rendered again.  The form is there in
\* create and edit mode.  initialData is an object literal of the App's render, so
\* each render of the App with an editingUser gives the form a new initialData and
\* its effect on [initialData] runs.
Render(st, rendered) ==
    /\ formMounted' = (mode' # "list")
    /\ formMode' = IF mode' = "list" THEN "create" ELSE mode'
    /\ initialData' = IF mode' = "list" THEN Undefined ELSE InitialDataOf(editingUser')
    /\ isLoading' = IF mode' = "list" THEN FALSE ELSE isSubmitting(mode', crudState')
    /\ IF mode' = "list"
       THEN SetForm(FormState(getEmptyFormData, EmptyObject, EmptyObject))
       ELSE IF ~formMounted
            THEN SetForm(syncEffect(initialData'))
            ELSE IF rendered /\ (initialData' # Undefined \/ initialData # Undefined)
                 THEN SetForm(syncEffect(initialData'))
                 ELSE SetForm(st)

AppInit ==
    /\ mode = "list"
    /\ editingUser = NoUser
    /\ deleteConfirmUser = NoUser
    /\ users = <<>>
    /\ isLoadingUsers = TRUE
    /\ usersError = Null
    /\ crudState = InitialLoadingState
    /\ lastError = Null
    /\ calls = {}
    /\ fetches = 1
    /\ latestFetch = FetchPending
    /\ lastEvent = Event("mount", {})
    /\ FormAtRest
    /\ FnAtRest
    /\ BackendAtRest

\* the continuation of fetchUsers after its await, for the call started last
\* (latest) or for one started before it
FetchDone(latest, outcome) ==
    /\ fetches > 0
    /\ IF latest THEN latestFetch = FetchPending
                 ELSE latestFetch = FetchPending => fetches > 1
    /\ fetches' = fetches - 1
    /\ latestFetch' = IF latest THEN outcome ELSE latestFetch
    /\ IF outcome.type = "result" /\ outcome.success
       THEN users' = outcome.data /\ usersError' = usersError
       ELSE /\ users' = users
            /\ usersError' = IF outcome.type = "throw"
                             THEN "An unexpected error occurred while loading users"
                             ELSE "Failed to load users"
    /\ isLoadingUsers' = FALSE
    /\ lastEvent' = Event("fetchDone", {})
    /\ UNCHANGED <<mode, editingUser, deleteConfirmUser, crudState, lastError, calls, fnVars, backendVars>>
    /\ Render(form, TRUE)

handleStartCreate ==
    /\ mode = "list"
    /\ ~isLoadingUsers
    /\ mode' = "create"
    /\ editingUser' = NoUser
    /\ lastError' = Null
    /\ lastEvent' = Event("ui", {})
    /\ UNCHANGED <<deleteConfirmUser, users, isLoadingUsers, usersError, crudState, calls,
                   fetches, latestFetch, fnVars, backendVars>>
    /\ Render(form, TRUE)

handleStartEdit(user) ==
    /\ user \in ListedUsers
    /\ crudState.deleting # user.id
    /\ mode' = "edit"
    /\ editingUser' = user
    /\ lastError' = Null
    /\ lastEvent' = Event("ui", {})
    /\ UNCHANGED <<deleteConfirmUser, users, isLoadingUsers, usersError, crudState, calls,
                   fetches, latestFetch, fnVars, backendVars>>
    /\ Render(form, TRUE)

handleCancel ==
    /\ formMounted
    /\ ~isLoading
    /\ mode' = "list"
    /\ editingUser' = NoUser
    /\ lastError' = Null
    /\ lastEvent' = Event("ui", {})
    /\ UNCHANGED <<deleteConfirmUser, users, isLoadingUsers, usersError, crudState, calls,
                   fetches, latestFetch, fnVars, backendVars>>
    /\ Render(form, TRUE)

\* the form's own events: the App does not render
AppFormChange(name, value) ==
    /\ formMounted
    /\ ~isLoading
    /\ value # InputValue(name)
    /\ lastEvent' = Event("ui", {})
    /\ UNCHANGED <<appVars, fnVars, backendVars>>
    /\ Render(handleChange(form, name, value), FALSE)

AppFormBlur(name) ==
    /\ formMounted
    /\ ~isLoading
    /\ lastEvent' = Event("ui", {})
    /\ UNCHANGED <<appVars, fnVars, backendVars>>
    /\ Render(handleBlur(form, name, InputValue(name)), FALSE)

AppFormClear ==
    /\ formMounted
    /\ ~isLoading
    /\ lastEvent' = Event("ui", {})
    /\ UNCHANGED <<appVars, fnVars, backendVars>>
    /\ Render(handleClearForm(form), FALSE)

\* handleSubmit, and handleFormSubmit when the form hands its data on: createUser
\* or updateUser up to its await
AppFormSubmit ==
    /\ formMounted
    /\ isFormValidNow(form)
    /\ ~isLoading
    /\ LET st == handleSubmit(form)
           kind == IF mode = "create" THEN "create" ELSE "update"
           calling == st.handed # {} /\ (mode = "create" \/ editingUser # NoUser)
       IN  /\ lastEvent' = Event("submit", st.handed)
           /\ IF calling
              THEN /\ crudState' = StartedState(crudState, kind, editingUser.id)
                   /\ lastError' = Null
                   /\ calls' = calls \cup {[kind |-> kind, id |-> editingUser.id,
                                            data |-> formData]}
              ELSE UNCHANGED <<crudState, lastError, calls>>
           /\ UNCHANGED <<mode, editingUser, deleteConfirmUser, users, isLoadingUsers,
                          usersError, fetches, latestFetch, fnVars, backendVars>>
           /\ Render(st, calling)

\* mutant: onDelete of a card calls deleteUser at once, without the dialog
RequestDelete_Immediately(user) ==
    /\ user \in ListedUsers
    /\ crudState.deleting # user.id
    /\ crudState' = StartedState(crudState, "delete", user.id)
    /\ lastError' = Null
    /\ calls' = calls \cup {[kind |-> "delete", id |-> user.id, data |-> Undefined]}
    /\ lastEvent' = Event("ui", {})
    /\ UNCHANGED <<mode, editingUser, deleteConfirmUser, users, isLoadingUsers,
                   usersError, fetches, latestFetch, fnVars, backendVars>>
    /\ Render(form, TRUE)

\* onDelete of a card
RequestDelete(user) ==
    /\ user \in ListedUsers
    /\ crudState.deleting # user.id
    /\ deleteConfirmUser' = user
    /\ lastEvent' = Event("ui", {})
    /\ UNCHANGED <<mode, editingUser, users, isLoadingUsers, usersError, crudState,
                   lastError, calls, fetches, latestFetch, fnVars, backendVars>>
    /\ Render(form, deleteConfirmUser' # deleteConfirmUser)

\* onCancel of the dialog: its Cancel button, or a click on the overlay
DialogCancel ==
    /\ deleteConfirmUser # NoUser
    /\ deleteConfirmUser' = NoUser
    /\ lastEvent' = Event("ui", {})
    /\ UNCHANGED <<mode, editingUser, users, isLoadingUsers, usersError, crudState,
                   lastError, calls, fetches, latestFetch, fnVars, backendVars>>
    /\ Render(form, TRUE)

\* handleConfirmDelete: deleteUser up to its await
handleConfirmDelete ==
    /\ deleteConfirmUser # NoUser
    /\ crudState.deleting = Null
    /\ crudState' = StartedState(crudState, "delete", deleteConfirmUser.id)
    /\ lastError' = Null
    /\ calls' = calls \cup {[kind |-> "delete", id |-> deleteConfirmUser.id,
                             data |-> Undefined]}
    /\ lastEvent' = Event("ui", {})
    /\ UNCHANGED <<mode, editingUser, deleteConfirmUser, users, isLoadingUsers,
                   usersError, fetches, latestFetch, fnVars, backendVars>>
    /\ Render(form, TRUE)

\* mutant: onSuccess refetches the list and leaves the mode and the editing user
CallDone_KeepsMode(call, outcome) ==
    /\ call \in calls
    /\ calls' = calls \ {call}
    /\ crudState' = FinishedState(crudState, call.kind)
    /\ IF Succeeded(call.kind, outcome)
       THEN /\ fetches < MaxFetches
            /\ fetches' = fetches + 1
            /\ latestFetch' = FetchPending
            /\ isLoadingUsers' = TRUE
            /\ usersError' = Null
            /\ deleteConfirmUser' = IF call.kind = "delete" THEN NoUser
                                    ELSE deleteConfirmUser
            /\ lastError' = lastError
            /\ lastEvent' = Event("callSucceeded", {})
            /\ UNCHANGED <<mode, editingUser>>
       ELSE /\ lastError' = ErrorMessage(call.kind, outcome)
            /\ lastEvent' = Event("callFailed", {})
            /\ UNCHANGED <<fetches, latestFetch, isLoadingUsers, usersError, mode, editingUser,
                           deleteConfirmUser>>
    /\ UNCHANGED <<users, fnVars, backendVars>>
    /\ Render(form, TRUE)

\* the continuation of a CRUD call after its await: the branch the outcome takes,
\* the App's onSuccess (with refetchUsers up to its await) or onError, the finally
\* block, and for a delete the rest of handleConfirmDelete
CallDone(call, outcome) ==
    /\ call \in calls
    /\ calls' = calls \ {call}
    /\ crudState' = FinishedState(crudState, call.kind)
    /\ IF Succeeded(call.kind, outcome)
       THEN /\ fetches < MaxFetches
            /\ fetches' = fetches + 1
            /\ latestFetch' = FetchPending
            /\ isLoadingUsers' = TRUE
            /\ usersError' = Null
            /\ mode' = "list"
            /\ editingUser' = NoUser
            /\ deleteConfirmUser' = IF call.kind = "delete" THEN NoUser
                                    ELSE deleteConfirmUser
            /\ lastError' = lastError
            /\ lastEvent' = Event("callSucceeded", {})
       ELSE /\ lastError' = ErrorMessage(call.kind, outcome)
            /\ lastEvent' = Event("callFailed", {})
            /\ UNCHANGED <<fetches, latestFetch, isLoadingUsers, usersError, mode, editingUser,
                           deleteConfirmUser>>
    /\ UNCHANGED <<users, fnVars, backendVars>>
    /\ Render(form, TRUE)

AppNext ==
    \/ \E latest \in BOOLEAN : \E outcome \in FetchOutcomes : FetchDone(latest, outcome)
    \/ handleStartCreate
    \/ \E user \in ListedUsers : handleStartEdit(user)
    \/ handleCancel
    \/ \E name \in SchemaNames : \E value \in AppInputValues(name) : AppFormChange(name, value)
    \/ \E name \in AppBlurFields : AppFormBlur(name)
    \/ AppFormClear
    \/ AppFormSubmit
    \/ \E user \in ListedUsers : RequestDelete(user)
    \/ DialogCancel
    \/ handleConfirmDelete
    \/ \E call \in calls : \E outcome \in Outcomes(call.kind) : CallDone(call, outcome)

AppSpec == AppInit /\ [][AppNext]_vars

----------------------------------------------------------------------------
(* Properties of the form inside the App *)

FormUnchanged ==
    /\ formMounted'
    /\ formData' = formData
    /\ errors' = errors
    /\ touched' = touched

\* a step that starts the form's own create/update call, completes a call without
\* success, or starts or completes a delete
KeepingStep ==
    \/ AppFormSubmit /\ lastEvent'.handed # {}
    \/ handleConfirmDelete
    \/ \E call \in calls : \E outcome \in Outcomes(call.kind) :
          /\ CallDone(call, outcome)
          /\ call.kind = "delete" \/ ~Succeeded(call.kind, outcome)

\* C8 (as claimed): while the form is open, in create and in edit mode, the start
\* of its own create/update call, the failed completion of a call and the start or
\* completion of a delete leave the draft, the errors and touched as they were.
C8_DraftKept == [][(formMounted /\ KeepingStep) => FormUnchanged]_vars

----------------------------------------------------------------------------
(* Properties of the single validators *)

Letters == LowerLetters \cup UpperLetters

WhitespaceOnly(v) == \A i \in 1..Len(v) : v[i] \in WhiteSpace

\* C11 (as claimed): validateName(v) is the required error if v is empty or
\* whitespace-only; else the minimum-length error if length(v) < 2; else the
\* maximum-length error if length(v) > 50; else the character-class error if v has
\* a character other than A-Z, a-z, space, hyphen or apostrophe; else the empty
\* string.
C11_ValidateName ==
    (fnCall.op = "validateName" /\ fnResult # {}) =>
        LET v == fnCall.arg
        IN  fnResult =
              {IF WhitespaceOnly(v) THEN "This field is required"
               ELSE IF Len(v) < 2 THEN "Name must be at least 2 characters"
               ELSE IF Len(v) > 50 THEN "Name must not exceed 50 characters"
               ELSE IF \E i \in 1..Len(v) : v[i] \notin Letters \cup {" ", "-", "'"}
                    THEN "Name can only contain letters, spaces, hyphens, and apostrophes"
               ELSE ""}

\* what is left of v without its spaces, parentheses and hyphens
RECURSIVE WithoutFormatting(_)
WithoutFormatting(v) ==
    IF v = <<>> THEN <<>>
    ELSE IF Head(v) \in {" ", "(", ")", "-"} THEN WithoutFormatting(Tail(v))
         ELSE <<Head(v)>> \o WithoutFormatting(Tail(v))

\* an optional single leading plus, then 10 or more digits and nothing else
PlusAndDigits(r) ==
    \E start \in {1, 2} :
        /\ start = 2 => (Len(r) >= 1 /\ r[1] = "+")
        /\ Len(r) - start + 1 >= 10
        /\ \A i \in start..Len(r) : r[i] \in Digits

\* C12 (as claimed): validatePhone(v) is the required error if v is empty or
\* whitespace-only; otherwise it is the empty string exactly when v without its
\* spaces, parentheses and hyphens is an optional leading plus followed by 10 or
\* more digits, and the at-least-10-digits error in every other case.
C12_ValidatePhone ==
    (fnCall.op = "validatePhone" /\ fnResult # {}) =>
        LET v == fnCall.arg
        IN  fnResult =
              {IF WhitespaceOnly(v) THEN "Phone number is required"
               ELSE IF PlusAndDigits(WithoutFormatting(v)) THEN ""
               ELSE "Phone number must contain at least 10 digits"}

\* one or more characters, none of them whitespace or '@'
Part(p) == Len(p) >= 1 /\ \A i \in 1..Len(p) : p[i] \notin WhiteSpace \cup {"@"}

\* v is local@domain.rest
EmailShape(v) ==
    \E a \in 1..Len(v) : \E d \in 1..Len(v) :
        /\ a < d
        /\ v[a] = "@"
        /\ v[d] = "."
        /\ Part(SubSeq(v, 1, a - 1))
        /\ Part(SubSeq(v, a + 1, d - 1))
        /\ Part(SubSeq(v, d + 1, Len(v)))

Count(v, c) == Cardinality({i \in 1..Len(v) : v[i] = c})

\* C13: validateEmail(v) is the required error if v is empty or whitespace-only;
\* otherwise it is the empty string exactly when v is local@domain.rest with
\* local, domain and rest each one or more characters that are neither whitespace
\* nor '@', and the invalid-email error in every other case; an accepted v has
\* exactly one '@', not as its first character, and a dot after it with a
\* character on each side.
C13_ValidateEmail ==
    (fnCall.op = "validateEmail" /\ fnResult # {}) =>
        LET v == fnCall.arg
        IN  /\ fnResult =
                 {IF WhitespaceOnly(v) THEN "Email is required"
                  ELSE IF EmailShape(v) THEN ""
                  ELSE "Please enter a valid email address"}
            /\ fnResult = {""} =>
                 /\ Count(v, "@") = 1
                 /\ v[1] # "@"
                 /\ \E d \in 3..(Len(v) - 1) :
                      /\ v[d] = "." /\ v[d - 1] # "@"
                      /\ \E a \in 1..(d - 2) : v[a] = "@"

\* an address with a dot in its domain part is accepted
C13_Witness ==
    /\ fnCall.op = "validateEmail"
    /\ fnCall.arg = <<"a", "@", ".", "a", ".", "a">>
    /\ fnResult = {""}

\* C14: validateField routes validation name to validateName, email to
\* validateEmail and phone to validatePhone; for no validation or one it does not
\* know it returns the required error when the value is empty or whitespace-only
\* and the empty string otherwise; the result is the same for every field name.
C14_Routing ==
    (fnCall.op = "validateField" /\ fnResult # {}) =>
        LET v == fnCall.arg.value
            kind == fnCall.arg.validation
        IN  /\ kind = "name" => fnResult = {validateName(v)}
            /\ kind = "email" => fnResult = {validateEmail(v)}
            /\ kind = "phone" => fnResult = {validatePhone(v)}
            /\ kind \notin {"name", "email", "phone"} =>
                 fnResult = {IF WhitespaceOnly(v) THEN "This field is required" ELSE ""}
            /\ \A f \in FieldNameInputs : fnResult = {validateField(f, v, kind)}

\* a field named email, validated as a name
C14_Witness ==
    /\ fnCall.op = "validateField"
    /\ fnCall.arg.fieldName = "email"
    /\ fnCall.arg.validation = "name"
    /\ fnCall.arg.value = ShortEmail
    /\ fnResult = {"Name can only contain letters, spaces, hyphens, and apostrophes"}

DigitValue(c) == CHOOSE n \in 0..9 : ToString(n) = c

DaysIn(year, month) ==
    IF month = 2
    THEN IF year % 4 = 0 /\ (year % 100 # 0 \/ year % 400 = 0) THEN 29 ELSE 28
    ELSE IF month \in {4, 6, 9, 11} THEN 30 ELSE 31

\* v is YYYY-MM-DD and names a day of the calendar
IsCalendarDate(v) ==
    /\ Len(v) = 10
    /\ v[5] = "-" /\ v[8] = "-"
    /\ \A i \in {1, 2, 3, 4, 6, 7, 9, 10} : v[i] \in Digits
    /\ LET year == 1000 * DigitValue(v[1]) + 100 * DigitValue(v[2])
                     + 10 * DigitValue(v[3]) + DigitValue(v[4])
           month == 10 * DigitValue(v[6]) + DigitValue(v[7])
           day == 10 * DigitValue(v[9]) + DigitValue(v[10])
       IN  /\ month \in 1..12
           /\ day \in 1..DaysIn(year, month)

\* C15 (as claimed): for validation date, validateField returns an error only when
\* the value is non-empty and is not a valid calendar date, and returns none for
\* the empty string; a field of the schema with required false and validation date
\* that is left empty has no entry in the result of validateFormData.
C15_DateKind ==
    /\ (fnCall.op = "validateField" /\ fnCall.arg.validation = "date" /\ fnResult # {}) =>
          LET v == fnCall.arg.value
          IN  /\ fnResult # {""} => (v # <<>> /\ ~IsCalendarDate(v))
              /\ v = <<>> => fnResult = {""}
    /\ (fnCall.op = "validateFormDataExtended" /\ fnResult # {}) =>
          \A r \in fnResult :
              ValueOrEmpty(fnCall.arg, "dateOfBirth") = <<>> => "dateOfBirth" \notin DOMAIN r

----------------------------------------------------------------------------
(* useUserCRUD on its own: a component calls createUser, updateUser,          *)
(* deleteUser and clearError in any order, also while earlier calls are       *)
(* suspended at their await; onSuccess and onError record their invocations.  *)

MaxInFlight == 3

UserIds == {Alice.id, Bob.id}

Slots == 1..MaxInFlight

FreeSlot == CHOOSE n \in Slots : /\ \A c \in calls : c.n # n
                                 /\ \A k \in 1..(n - 1) : \E c \in calls : c.n = k

\* what a handler of the hook did: the call, the backend's answer, the
\* invocations of the callbacks and the value the call returned
CrudEvent(op, call, outcome, onSuccess, onError, returned) ==
    [op |-> op, call |-> call, outcome |-> outcome, onSuccess |-> onSuccess,
     onError |-> onError, returned |-> returned]

NoCall == [kind |-> "none"]
NoOutcome == [type |-> "none"]

\* a call up to its await: the flag is set and the stored error cleared
StartCall(call) ==
    /\ Cardinality(calls) < MaxInFlight
    /\ crudState' = StartedState(crudState, call.kind, call.id)
    /\ lastError' = Null
    /\ calls' = calls \cup {call}
    /\ lastEvent' = CrudEvent("start", call, NoOutcome, <<>>, <<>>, Null)
    /\ UNCHANGED <<formVars, fnVars, backendVars, mode, editingUser, deleteConfirmUser, users,
                   isLoadingUsers, usersError, fetches, latestFetch>>

createUser(data) ==
    StartCall([kind |-> "create", id |-> Null, data |-> data, n |-> FreeSlot])

updateUser(id, data) ==
    StartCall([kind |-> "update", id |-> id, data |-> data, n |-> FreeSlot])

deleteUser(id) ==
    StartCall([kind |-> "delete", id |-> id, data |-> Undefined, n |-> FreeSlot])

\* mutant: the else branch does not call setLastError
StoredError_Kept(call, outcome) == lastError

\* the stored error after the continuation of a call
StoredError(call, outcome) ==
    IF Succeeded(call.kind, outcome) THEN lastError
    ELSE ErrorMessage(call.kind, outcome)

\* mutant: the flag is cleared in the try block, after the success branch only
SettledState_OnSuccessOnly(call, outcome) ==
    IF Succeeded(call.kind, outcome) THEN FinishedState(crudState, call.kind)
    ELSE crudState

\* the operation state after the continuation of a call: the finally block
SettledState(call, outcome) == FinishedState(crudState, call.kind)

\* the value the call returns
Returned(call, outcome) ==
    IF call.kind = "delete" THEN Succeeded(call.kind, outcome)
    ELSE IF Succeeded(call.kind, outcome) THEN "response.data" ELSE Null

\* the continuation of a call after its await
CrudCallDone(call, outcome) ==
    /\ call \in calls
    /\ calls' = calls \ {call}
    /\ crudState' = SettledState(call, outcome)
    /\ lastError' = StoredError(call, outcome)
    /\ lastEvent' =
         IF Succeeded(call.kind, outcome)
         THEN CrudEvent("done", call, outcome, <<SuccessMessage(call.kind)>>, <<>>,
                        Returned(call, outcome))
         ELSE CrudEvent("done", call, outcome, <<>>,
                        <<ErrorMessage(call.kind, outcome)>>, Returned(call, outcome))
    /\ UNCHANGED <<formVars, fnVars, backendVars, mode, editingUser, deleteConfirmUser, users,
                   isLoadingUsers, usersError, fetches, latestFetch>>

clearError ==
    /\ lastError' = Null
    /\ lastEvent' = CrudEvent("clearError", NoCall, NoOutcome, <<>>, <<>>, Null)
    /\ UNCHANGED <<formVars, fnVars, backendVars, mode, editingUser, deleteConfirmUser, users,
                   isLoadingUsers, usersError, crudState, calls, fetches, latestFetch>>

CrudInit ==
    /\ crudState = InitialLoadingState
    /\ lastError = Null
    /\ calls = {}
    /\ lastEvent = CrudEvent("mount", NoCall, NoOutcome, <<>>, <<>>, Null)
    /\ mode = "list"
    /\ editingUser = NoUser
    /\ deleteConfirmUser = NoUser
    /\ users = <<>>
    /\ isLoadingUsers = FALSE
    /\ usersError = Null
    /\ fetches = 0
    /\ latestFetch = [type |-> "none"]
    /\ FormAtRest
    /\ FnAtRest
    /\ BackendAtRest

CrudNext ==
    \/ \E data \in SeedData : createUser(data)
    \/ \E id \in UserIds : \E data \in SeedData : updateUser(id, data)
    \/ \E id \in UserIds : deleteUser(id)
    \/ \E call \in calls : \E outcome \in Outcomes(call.kind) : CrudCallDone(call, outcome)
    \/ clearError

CrudSpec == CrudInit /\ [][CrudNext]_vars

\* the backend answers every call
BackendAnswers ==
    \A n \in Slots :
        WF_vars(\E call \in calls : \E outcome \in Outcomes(call.kind) :
                    call.n = n /\ CrudCallDone(call, outcome))

CrudLiveSpec == CrudSpec /\ BackendAnswers

----------------------------------------------------------------------------
(* Properties of useUserCRUD *)

Kinds == {"create", "update", "delete"}

InFlight(cs, kind) == {c \in cs : c.kind = kind}

\* the flag of a kind of call ...
FlagOf(st, kind) ==
    CASE kind = "create" -> st.creating
      [] kind = "update" -> st.updating
      [] kind = "delete" -> st.deleting

\* ... its value while the call is in flight, and its cleared value
FlagSet(call) == IF call.kind = "delete" THEN call.id ELSE TRUE
FlagCleared(kind) == IF kind = "delete" THEN Null ELSE FALSE

\* C16: a call that starts while no call of its kind is in flight sets the flag of
\* its kind (true, true, the id); as long as no call of that kind starts or
\* completes, no step changes that flag; the completion of a call clears the flag
\* (false, false, null) for every outcome.  So a call that shares no moment with
\* another call of its kind has its flag set from its start until its completion
\* and cleared afterwards, whether the backend succeeded, failed or threw.
C16_FlagCleanup ==
    [][\A kind \in Kinds :
         LET before == InFlight(calls, kind)
             after == InFlight(calls', kind)
         IN  /\ (before = {} /\ after # {}) =>
                  \A c \in after : FlagOf(crudState', kind) = FlagSet(c)
             /\ after = before => FlagOf(crudState', kind) = FlagOf(crudState, kind)
             /\ (\E c \in before : c \notin after) =>
                  FlagOf(crudState', kind) = FlagCleared(kind)]_vars

\* a delete has ended with an exception while a create, started before it, is
\* still in flight
C16_Witness ==
    /\ lastEvent.op = "done"
    /\ lastEvent.call.kind = "delete"
    /\ lastEvent.outcome.type = "throw"
    /\ crudState.deleting = Null
    /\ InFlight(calls, "delete") = {}
    /\ InFlight(calls, "create") # {}
    /\ crudState.creating

\* the call that holds slot n, if there is one
Holder(n) == {c \in calls : c.n = n}

\* C17: when the backend answers every call, every call in flight completes, and
\* whenever no call is in flight the operation state is creating false, updating
\* false, deleting null.
C17_CallsComplete ==
    /\ \A n \in Slots : (Holder(n) # {}) ~> (Holder(n) = {})
    /\ [](calls = {} => crudState = InitialLoadingState)

\* the last of as many overlapping calls as the model allows has completed
C17_Witness ==
    /\ lastEvent.op = "done"
    /\ lastEvent.call.n = MaxInFlight
    /\ calls = {}
    /\ crudState = InitialLoadingState

\* C18 (as claimed): whenever a deleteUser call is in flight, deleting is the id of
\* a deleteUser call in flight, and deleting is null only when none is in flight.
C18_DeletingTracksInFlight ==
    LET ids == {c.id : c \in InFlight(calls, "delete")}
    IN  /\ ids # {} => crudState.deleting \in ids
        /\ crudState.deleting = Null => ids = {}

\* C19: when the backend answers a call with a failure result, the stored error
\* becomes the result's error string, or the fallback of the operation when that
\* string is absent or empty; onError is invoked once, with that message; onSuccess
\* is not invoked; the call returns null (createUser, updateUser) or false
\* (deleteUser).
C19_FailurePath ==
    [][\A call \in calls : \A outcome \in Outcomes(call.kind) :
         (CrudCallDone(call, outcome) /\ outcome.type = "result" /\ ~outcome.success) =>
             LET msg == IF outcome.error \in {Null, ""}
                        THEN FallbackMessage(call.kind) ELSE outcome.error
             IN  /\ lastError' = msg
                 /\ lastEvent'.onError = <<msg>>
                 /\ lastEvent'.onSuccess = <<>>
                 /\ IF call.kind = "delete" THEN lastEvent'.returned = FALSE
                    ELSE lastEvent'.returned = Null]_vars

\* the backend has rejected a create as a duplicate
C19_Witness ==
    /\ lastEvent.op = "done"
    /\ lastEvent.call.kind = "create"
    /\ lastEvent.outcome.type = "result"
    /\ lastEvent.outcome.error = "A user with this email already exists"
    /\ lastError = "A user with this email already exists"
    /\ lastEvent.onError = <<"A user with this email already exists">>

\* C20 (as claimed): at the moment a call completes successfully the stored error
\* is null.
C20_SuccessClearsError ==
    [][\A call \in calls : \A outcome \in Outcomes(call.kind) :
         (CrudCallDone(call, outcome) /\ Succeeded(call.kind, outcome)) =>
             lastError' = Null]_vars

\* C21: when the backend call throws, the call still returns, with null
\* (createUser, updateUser) or false (deleteUser); the stored error is the fixed
\* message of the operation and not the text of the exception; onError is invoked
\* once, with that message, and onSuccess is not invoked.
C21_ExceptionPath ==
    [][\A call \in calls : \A outcome \in Outcomes(call.kind) :
         (CrudCallDone(call, outcome) /\ outcome.type = "throw") =>
             /\ lastEvent'.op = "done"
             /\ IF call.kind = "delete" THEN lastEvent'.returned = FALSE
                ELSE lastEvent'.returned = Null
             /\ lastError' = UnexpectedMessage(call.kind)
             /\ lastError' # outcome.error
             /\ lastEvent'.onError = <<UnexpectedMessage(call.kind)>>
             /\ lastEvent'.onSuccess = <<>>]_vars

\* the backend call of an update has thrown
C21_Witness ==
    /\ lastEvent.op = "done"
    /\ lastEvent.call.kind = "update"
    /\ lastEvent.outcome.type = "throw"
    /\ lastEvent.outcome.error = "Network request failed"
    /\ lastError = "An unexpected error occurred while updating the user"

\* C22: the start and the completion (success, failure result or exception) of a
\* call of one kind leave the flags of the other two kinds as they were, also
\* while a create, an update and a delete are in flight together.
C22_FlagsIndependent ==
    [][\A kind \in Kinds :
         (lastEvent'.op \in {"start", "done"} /\ lastEvent'.call.kind = kind) =>
             \A other \in Kinds \ {kind} :
                 FlagOf(crudState', other) = FlagOf(crudState, other)]_vars

\* a create, an update and a delete were in flight together; the delete has
\* failed and the other two flags are still set
C22_Witness ==
    /\ lastEvent.op = "done"
    /\ lastEvent.call.kind = "delete"
    /\ ~Succeeded("delete", lastEvent.outcome)
    /\ InFlight(calls, "create") # {}
    /\ InFlight(calls, "update") # {}
    /\ crudState.creating
    /\ crudState.updating
    /\ crudState.deleting = Null

----------------------------------------------------------------------------
(* Properties of the App *)

\* C23 (as claimed): in every state of the App, creating and updating are not
\* both true.
C23_CreatingOrUpdating == ~(crudState.creating /\ crudState.updating)

\* the step starts the createUser or updateUser call of the form
FormCallStarts == AppFormSubmit /\ lastEvent'.handed # {}

\* C24: in every state of the App at most one createUser, one updateUser and one
\* deleteUser call is in flight, and a call is started only when none of its kind
\* is in flight: a submit of the form starts none while its own kind of call is
\* pending, a confirm starts none while a delete is pending.
C24_SingleOutstanding ==
    /\ [](\A kind \in Kinds : Cardinality(InFlight(calls, kind)) <= 1)
    /\ [][/\ FormCallStarts =>
               InFlight(calls, IF mode = "create" THEN "create" ELSE "update") = {}
          /\ handleConfirmDelete => InFlight(calls, "delete") = {}]_vars

\* a delete is pending and the dialog is open again, for the same user, with its
\* buttons disabled; a create and an update are pending too
C24_Witness ==
    /\ \A kind \in Kinds : Cardinality(InFlight(calls, kind)) = 1
    /\ deleteConfirmUser # NoUser
    /\ crudState.deleting = deleteConfirmUser.id

\* C25: a deleteUser call starts only in a confirm of the open dialog, with the id
\* of the user the dialog shows; the dialog opens only by a delete request on a
\* listed user; cancelling the dialog starts no call and closes it, so that no
\* confirm can follow without a new request.
C25_DeleteNeedsConfirm ==
    [][/\ (InFlight(calls', "delete") # InFlight(calls, "delete")
             /\ InFlight(calls, "delete") \subseteq InFlight(calls', "delete")) =>
               /\ handleConfirmDelete
               /\ deleteConfirmUser # NoUser
               /\ \A c \in InFlight(calls', "delete") \ InFlight(calls, "delete") :
                    c.id = deleteConfirmUser.id
       /\ (crudState'.deleting # Null /\ crudState'.deleting # crudState.deleting) =>
               /\ handleConfirmDelete
               /\ crudState'.deleting = deleteConfirmUser.id
       /\ (deleteConfirmUser' # NoUser /\ deleteConfirmUser' # deleteConfirmUser) =>
               /\ deleteConfirmUser' \in ListedUsers
               /\ RequestDelete(deleteConfirmUser')
       /\ DialogCancel =>
               /\ calls' = calls
               /\ crudState' = crudState
               /\ deleteConfirmUser' = NoUser]_vars

\* the delete of the user the dialog shows has been confirmed
C25_Witness ==
    /\ deleteConfirmUser = Bob
    /\ InFlight(calls, "delete") = {[kind |-> "delete", id |-> Bob.id, data |-> Undefined]}
    /\ crudState.deleting = Bob.id

----------------------------------------------------------------------------
(* The backend (src/services/api): an in-memory store of records behind       *)
(* create, update and delete.  Its answers are results: a success with its    *)
(* payload, or an error string.                                               *)

MaxCreated == 2

CarolEmail == <<"c", "a", "r", "o", "l", "@", "e", "x", "a", "m", "p", "l", "e", ".", "c", "o", "m">>
DaveEmail == <<"d", "a", "v", "e", "@", "e", "x", "a", "m", "p", "l", "e", ".", "c", "o", "m">>

Carol == [Bob EXCEPT !.id = "3", !.createdAt = "t3", !.email = CarolEmail]

\* the records the store starts with
SeedUsers == <<Alice, Bob, Carol>>

\* the number of the first generated id
FirstGeneratedId == Len(SeedUsers) + 1

\* the ids update and delete are called with: those of the seeds, the first
\* generated one and one that is never stored
BackendIds == {Alice.id, Bob.id, ToString(FirstGeneratedId), "999"}

\* the record fields create and update are called with
BackendData ==
    {[AliceData EXCEPT !.firstName = f, !.email = m] :
        f \in {AliceData.firstName, <<>>},
        m \in {AliceData.email, Bob.email, DaveEmail}}

Ok(store, next, data) ==
    [response |-> [success |-> TRUE, data |-> data, error |-> Null],
     db |-> store, nextId |-> next]

Rejected(error) ==
    [response |-> [success |-> FALSE, data |-> {}, error |-> error],
     db |-> db, nextId |-> nextId]

IndexOf(id) == {i \in 1..Len(db) : db[i].id = id}

\* create: a missing required field and a duplicate email are errors; otherwise
\* the record is stored with a generated id and timestamp
apiCreate(data) ==
    IF \E f \in DOMAIN data : IsBlank(data[f])
    THEN Rejected("All fields are required")
    ELSE IF \E i \in 1..Len(db) : db[i].email = data.email
    THEN Rejected("A user with this email already exists")
    ELSE LET record == [id |-> ToString(nextId), createdAt |-> ToString(nextId)] @@ data
         IN  Ok(Append(db, record), nextId + 1, {record})

\* mutant: update looks for the email among all records, the updated one included
apiUpdate_OwnEmailToo(id, data) ==
    IF IndexOf(id) = {} THEN Rejected("User not found")
    ELSE IF \E i \in 1..Len(db) : db[i].email = data.email
    THEN Rejected("Email is already in use by another user")
    ELSE LET i == CHOOSE i \in IndexOf(id) : TRUE
             record == [id |-> id, createdAt |-> db[i].createdAt] @@ data
         IN  Ok([db EXCEPT ![i] = record], nextId, {record})

\* update: an unknown id and an email in use by another id are errors; otherwise
\* the record's fields are replaced
apiUpdate(id, data) ==
    IF IndexOf(id) = {} THEN Rejected("User not found")
    ELSE IF \E i \in 1..Len(db) : db[i].email = data.email /\ db[i].id # id
    THEN Rejected("Email is already in use by another user")
    ELSE LET i == CHOOSE i \in IndexOf(id) : TRUE
             record == [id |-> id, createdAt |-> db[i].createdAt] @@ data
         IN  Ok([db EXCEPT ![i] = record], nextId, {record})

\* delete: an unknown id is an error; otherwise the record is removed
apiDelete(id) ==
    IF IndexOf(id) = {} THEN Rejected("User not found")
    ELSE LET i == CHOOSE i \in IndexOf(id) : TRUE
         IN  Ok(SubSeq(db, 1, i - 1) \o SubSeq(db, i + 1, Len(db)), nextId, {})

BackendEvent(op, id, data, response) ==
    [op |-> op, id |-> id, data |-> data, response |-> response]

Answer(op, id, data, result) ==
    /\ db' = result.db
    /\ nextId' = result.nextId
    /\ lastEvent' = BackendEvent(op, id, data, result.response)
    /\ UNCHANGED <<formVars, appVars, fnVars>>

BackendCreate(data) ==
    /\ nextId < FirstGeneratedId + MaxCreated
    /\ Answer("create", Null, data, apiCreate(data))

BackendUpdate(id, data) == Answer("update", id, data, apiUpdate(id, data))

BackendDelete(id) == Answer("delete", id, Undefined, apiDelete(id))

BackendInit ==
    /\ db = SeedUsers
    /\ nextId = FirstGeneratedId
    /\ lastEvent = BackendEvent("reset", Null, Undefined,
                                [success |-> TRUE, data |-> {}, error |-> Null])
    /\ FormAtRest
    /\ AppAtRest
    /\ fnCall = [op |-> "none"]
    /\ fnResult = {}

BackendNext ==
    \/ \E data \in BackendData : BackendCreate(data)
    \/ \E id \in BackendIds : \E data \in BackendData : BackendUpdate(id, data)
    \/ \E id \in BackendIds : BackendDelete(id)

BackendSpec == BackendInit /\ [][BackendNext]_vars

----------------------------------------------------------------------------
(* Properties of the backend *)

EmailsOf(store) == {store[i].email : i \in 1..Len(store)}

IdsOf(store) == {store[i].id : i \in 1..Len(store)}

\* C26: no two stored records have the same email; a create whose email is that
\* of a stored record is rejected with an error; an update whose email is that of
\* a stored record with another id is rejected, one whose email is the record's own
\* is accepted; an update or delete of an unknown id is rejected; every rejected
\* call leaves the stored records, and so their count, unchanged.
C26_EmailUnique ==
    /\ [](\A i \in 1..Len(db) : \A j \in 1..Len(db) : db[i].email = db[j].email => i = j)
    /\ [][LET op == lastEvent'.op
              id == lastEvent'.id
              data == lastEvent'.data
              response == lastEvent'.response
              rejected == ~response.success /\ response.error \notin {Null, ""}
          IN  /\ (op = "create" /\ data.email \in EmailsOf(db)) => rejected
              /\ (op = "update" /\ \E i \in 1..Len(db) :
                                       db[i].email = data.email /\ db[i].id # id) => rejected
              /\ (op = "update" /\ \E i \in 1..Len(db) :
                                       /\ db[i].id = id
                                       /\ db[i].email = data.email) => response.success
              /\ (op \in {"update", "delete"} /\ id \notin IdsOf(db)) => rejected
              /\ ~response.success => (rejected /\ db' = db /\ Len(db') = Len(db))]_vars

\* an update of Alice to Bob's email has been rejected, with a record created
\* before it in the store
C26_Witness ==
    /\ lastEvent.op = "update"
    /\ lastEvent.id = Alice.id
    /\ lastEvent.data.email = Bob.email
    /\ ~lastEvent.response.success
    /\ Bob.email \in EmailsOf(db)
    /\ DaveEmail \in EmailsOf(db)
    /\ Len(db) = Len(SeedUsers) + 1

----------------------------------------------------------------------------
(* Further properties of the form controller *)

\* C27: in every state of the form, the stored error of a touched schema field
\* (the empty string when absent) is validateField of its current value, and the
\* stored error of a field that is not touched is empty or absent.
C27_ErrorsCurrent ==
    \A f \in FieldNames :
        IF IsTouched(touched, f)
        THEN ErrorOf(errors, f) = validateField(f, formData[f], SchemaValidation(f))
        ELSE ErrorOf(errors, f) = ""

\* a touched field whose value was corrected after an error had been stored for it
C27_Witness ==
    /\ lastEvent.op = "change"
    /\ IsTouched(touched, "firstName")
    /\ "firstName" \in DOMAIN errors
    /\ errors["firstName"] = ""
    /\ formData["firstName"] = TwoLetters
    /\ IsTouched(touched, "email")
    /\ ErrorOf(errors, "email") = "Please enter a valid email address"
    /\ ~IsTouched(touched, "phone")

\* C28: in every state of the form, if validateFormData of the draft has no error
\* then isFormValidNow is true.
C28_ValidIsSubmittable ==
    ~HasError(validateFormData(formData)) => isFormValidNow(form)

\* a valid draft, each field of which had an error stored for an earlier value
C28_Witness ==
    /\ ~HasError(validateFormData(formData))
    /\ isFormValidNow(form)
    /\ lastEvent.op = "change"
    /\ DOMAIN errors = FieldNames
    /\ \A f \in FieldNames : IsTouched(touched, f)

----------------------------------------------------------------------------
(* Properties of the App when an operation or a fetch returns *)

\* C29: when a createUser, updateUser or deleteUser call completes successfully the
\* App is in list mode with no editing user and the form is gone; when it completes
\* with a failure result or an exception, the mode, the editing user and the presence
\* of the form are what they were just before.
C29_ModeOnOutcome ==
    [][\A call \in calls : \A outcome \in Outcomes(call.kind) :
          CallDone(call, outcome) =>
              IF Succeeded(call.kind, outcome)
              THEN mode' = "list" /\ editingUser' = NoUser /\ ~formMounted'
              ELSE /\ mode' = mode
                   /\ editingUser' = editingUser
                   /\ formMounted' = formMounted]_vars

\* an update of Bob has failed and the edit form of Bob is still open
C29_Witness ==
    /\ lastEvent.op = "callFailed"
    /\ lastError # Null
    /\ mode = "edit"
    /\ editingUser = Bob
    /\ formMounted
    /\ InFlight(calls, "update") = {}

\* C30: every successful create, update or delete starts a getUsers call, and when
\* no CRUD call and no getUsers call is in flight and the most recently started
\* getUsers call succeeded, the displayed list is the response of that call, in
\* whatever order overlapping getUsers calls returned.
C30_ListRefresh ==
    /\ [][\A call \in calls : \A outcome \in Outcomes(call.kind) :
            (CallDone(call, outcome) /\ Succeeded(call.kind, outcome)) =>
                (fetches' = fetches + 1 /\ latestFetch' = FetchPending)]_vars
    /\ []((/\ calls = {}
           /\ fetches = 0
           /\ latestFetch.type = "result"
           /\ latestFetch.success) => users = latestFetch.data)

====
